---- MODULE Spec2Model ----
(***************************************************************************)
(* Model of src/generate_labels.py: main() as a sequential pipeline.       *)
(*                                                                         *)
(*   ParseArgs -> ReadConfig -> CheckProfileName -> ResolveProfile         *)
(*     -> OpenCsv -> CheckCsvLines -> CreateDocument -> BuildLabel*        *)
(*     -> RenderDocument                                                   *)
(*                                                                         *)
(* Strings of the configuration file are sequences of one-character        *)
(* strings, so that int() and str.split() are computed character by        *)
(* character.  Values of CSV records and the texts built from them are     *)
(* TLA+ strings joined with \o.                                            *)
(*                                                                         *)
(* Lengths are integers counted in 1/127 of a point, so that the           *)
(* reportlab unit mm = 72/25.4 = 360/127 points is the integer 360 and an  *)
(* unscaled point is 127.                                                  *)
(***************************************************************************)
EXTENDS Integers, Sequences, FiniteSets, TLC

VARIABLES
    pc,            \* position of main(): the stage to run next, or the
                   \* stage in which the process exited
    exited,        \* TRUE once the process has exited
    exitStatus,    \* process exit status, meaningful when exited
    exc,           \* name of the uncaught exception that ended the run, or ""
    stderr,        \* number of diagnostics written to the error stream
    outfile,       \* "absent" or "written": the file at args.outfile
    args,          \* argparse namespace: profile, csv_type_inventory
    config,        \* the parsed configuration: a sequence of sections
    csvrows,       \* the records of the file at args.csvfile, once opened
    csvopened,     \* TRUE once line 155 has opened the CSV file
    profile,       \* dict profile
    fields,        \* list fields
    swap_columns,  \* bool swap_columns
    csvlines,      \* value the name csvlines resolved to at line 169
    csv_type,      \* value the name csv_type resolved to at line 225, or ""
    dims,          \* dims
    qrdoc,         \* arguments given to SimpleDocTemplate, or {}
    counter,       \* counter
    tmpqueue,      \* tmpqueue
    data,          \* data
    qr_table       \* arguments given to Table, or {}

vars == <<pc, exited, exitStatus, exc, stderr, outfile, args, config, csvrows,
          csvopened, profile, fields, swap_columns, csvlines, csv_type, dims,
          qrdoc, counter, tmpqueue, data, qr_table>>

---------------------------------------------------------------------------
(* Bounds of the model *)

\* longest CSV file, in records
MaxRecords == 3

---------------------------------------------------------------------------
(* Units: reportlab.lib.units and reportlab.lib.pagesizes *)

\* one point, in 1/127 point
pt == 127
\* reportlab.lib.units.mm = 72/25.4 points, in 1/127 point
mm == 360
\* reportlab.lib.pagesizes.A4 = (210*mm, 297*mm)
A4 == <<210 * mm, 297 * mm>>

---------------------------------------------------------------------------
(* Python strings as character sequences *)

s_A4 == <<"A","4">>
s_A5 == <<"A","5">>
s_mm == <<"m","m">>
s_cm == <<"c","m">>
s_yes == <<"y","e","s">>
s_no == <<"n","o">>
s_label == <<"l","a","b","e","l">>
s_empty == <<>>

Digits == {"0","1","2","3","4","5","6","7","8","9"}

DigitVal(c) ==
    CASE c = "0" -> 0 [] c = "1" -> 1 [] c = "2" -> 2 [] c = "3" -> 3
      [] c = "4" -> 4 [] c = "5" -> 5 [] c = "6" -> 6 [] c = "7" -> 7
      [] c = "8" -> 8 [] c = "9" -> 9

RECURSIVE DigitsVal(_)
DigitsVal(s) ==
    IF s = <<>> THEN 0
    ELSE 10 * DigitsVal(SubSeq(s, 1, Len(s) - 1)) + DigitVal(s[Len(s)])

\* the digits of an int() literal: the string without its optional sign
Unsigned(s) ==
    IF s # <<>> /\ s[1] \in {"+", "-"} THEN Tail(s) ELSE s

\* int(s) does not raise ValueError
IsInt(s) ==
    /\ Unsigned(s) # <<>>
    /\ \A i \in 1..Len(Unsigned(s)) : Unsigned(s)[i] \in Digits

\* int(s), for IsInt(s)
PyInt(s) ==
    IF s[1] = "-" THEN 0 - DigitsVal(Unsigned(s)) ELSE DigitsVal(Unsigned(s))

\* the TLA+ string made of the characters of s
RECURSIVE Implode(_)
Implode(s) == IF s = <<>> THEN "" ELSE s[1] \o Implode(Tail(s))

\* s.split(sep) for a one-character sep: the pieces as character sequences
RECURSIVE SplitFrom(_, _, _)
SplitFrom(s, sep, piece) ==
    IF s = <<>> THEN <<piece>>
    ELSE IF s[1] = sep THEN <<piece>> \o SplitFrom(Tail(s), sep, <<>>)
    ELSE SplitFrom(Tail(s), sep, Append(piece, s[1]))

Split(s, sep) ==
    LET pieces == SplitFrom(s, sep, <<>>)
    IN  [i \in 1..Len(pieces) |-> Implode(pieces[i])]

---------------------------------------------------------------------------
(* configparser: a section is [name, opts]; opts maps the names of the    *)
(* options config.get finds for the section (its own and those of          *)
(* DEFAULT) to their values.  config.get(section, o) raises NoOptionError  *)
(* when o is not among them.                                               *)

\* the empty dict {}
EmptyDict == [k \in {} |-> 0]

HasOption(opts, o) == o \in DOMAIN opts

\* config.sections()
Sections(cfg) == {cfg[i].name : i \in 1..Len(cfg)}

\* int(config.get(section, o)) raises nothing
IntOption(opts, o) == HasOption(opts, o) /\ IsInt(opts[o])

---------------------------------------------------------------------------
(* Lines 90-149: the loop over config.sections().  The scan state is       *)
(* [profile, fields, swap_columns]; brk is TRUE when the body executed     *)
(* break.                                                                  *)

\* lines 91-101: the "general" section
ScanGeneral(opts, st) ==
    IF ~HasOption(opts, "type") THEN [st |-> st, brk |-> TRUE]
    ELSE IF HasOption(opts, "swap-columns") /\ opts["swap-columns"] = s_yes
         THEN [st |-> [st EXCEPT !.swap_columns = TRUE], brk |-> FALSE]
         ELSE [st |-> st, brk |-> FALSE]

\* lines 107-115: pagesize
WithPagesize(opts, p) ==
    IF HasOption(opts, "pagesize") /\ opts["pagesize"] = s_A4
    THEN ("pagesize" :> A4) @@ ("unit" :> mm) @@ p
    ELSE p

\* lines 126-135: rows and columns, 1 when absent or not an integer
WithGrid(opts, p) ==
    ("rows" :> (IF IntOption(opts, "rows") THEN PyInt(opts["rows"]) ELSE 1))
    @@ ("columns" :> (IF IntOption(opts, "columns")
                      THEN PyInt(opts["columns"]) ELSE 1))
    @@ p

\* lines 136-142: unit
WithUnit(opts, p) ==
    IF HasOption(opts, "unit") /\ opts["unit"] = s_mm
    THEN ("unit" :> mm) @@ p
    ELSE p

\* lines 143-149: fields
FieldsOf(opts) ==
    IF HasOption(opts, "fields")
    THEN LET split == Split(opts["fields"], ":")
         IN  IF split = <<>> THEN <<"artist", "title">> ELSE split
    ELSE <<"artist", "title">>

\* lines 102-149: the section named by args.profile
ScanProfile(opts, st) ==
    IF ~HasOption(opts, "type") THEN [st |-> st, brk |-> TRUE]
    ELSE
      LET p1 == WithPagesize(opts, st.profile)
      IN  IF "pagesize" \notin DOMAIN p1 /\ ~IntOption(opts, "height")
          THEN [st |-> [st EXCEPT !.profile = p1], brk |-> TRUE]
          ELSE
            LET p2 == IF "pagesize" \in DOMAIN p1 THEN p1
                      ELSE ("height" :> PyInt(opts["height"])) @@ p1
            IN  IF "pagesize" \notin DOMAIN p2 /\ ~IntOption(opts, "width")
                THEN [st |-> [st EXCEPT !.profile = p2], brk |-> TRUE]
                ELSE
                  LET p3 == IF "pagesize" \in DOMAIN p2 THEN p2
                            ELSE ("width" :> PyInt(opts["width"])) @@ p2
                  IN  [st |-> [st EXCEPT
                                 !.profile = WithUnit(opts, WithGrid(opts, p3)),
                                 !.fields = FieldsOf(opts)],
                       brk |-> FALSE]

\* lines 90-149, from section i on
RECURSIVE ScanSections(_, _, _, _)
ScanSections(cfg, name, i, st) ==
    IF i > Len(cfg) THEN st
    ELSE
      LET r == IF cfg[i].name = "general" THEN ScanGeneral(cfg[i].opts, st)
               ELSE IF cfg[i].name = name THEN ScanProfile(cfg[i].opts, st)
               ELSE [st |-> st, brk |-> FALSE]
      IN  IF r.brk THEN r.st ELSE ScanSections(cfg, name, i + 1, r.st)

\* lines 82-149
Resolve(cfg, name) ==
    ScanSections(cfg, name, 1,
                 [profile |-> EmptyDict, fields |-> <<>>,
                  swap_columns |-> FALSE])

---------------------------------------------------------------------------
(* Inputs: configuration files *)

\* the choices for one option: absent, or one of the values
OptChoices(o, values) == {EmptyDict} \cup {o :> v : v \in values}

Section(name, opts) == [name |-> name, opts |-> opts]

\* a well-formed profile section: 40 x 30 mm, two columns
BaseOpts ==
    ("type" :> s_label) @@ ("height" :> <<"4","0">>)
    @@ ("width" :> <<"3","0">>) @@ ("unit" :> s_mm)
    @@ ("columns" :> <<"2">>)

\* with and without the type marker
TypeOpts == {BaseOpts, [o \in DOMAIN BaseOpts \ {"type"} |-> BaseOpts[o]]}

\* page geometry: pagesize, height, width, unit
GeometryOpts ==
    {("type" :> s_label) @@ ("pagesize" :> ps) @@ u @@ ("columns" :> <<"2">>)
        : ps \in {s_A4}, u \in OptChoices("unit", {s_mm, s_cm})}
    \cup
    {("pagesize" :> s_A5) @@ u @@ BaseOpts
        : u \in OptChoices("unit", {s_cm})}
    \cup
    {("type" :> s_label) @@ h @@ w @@ u
        : h \in OptChoices("height", {<<"4","x">>, <<"4","0">>}),
          w \in OptChoices("width", {<<"w">>, <<"3","0">>, <<"5","0">>}),
          u \in OptChoices("unit", {s_mm, s_cm})}

\* grid and text layout: rows, columns, fields
LayoutOpts ==
    {r @@ BaseOpts : r \in OptChoices("rows", {<<"x">>, <<"2">>, <<"-","1">>})}
    \cup
    {c @@ f @@ BaseOpts
        : c \in OptChoices("columns", {<<"0">>, <<"3">>, <<"1","x">>, <<"1">>}),
          f \in OptChoices("fields",
                 {s_empty,
                  <<"c","o","n","d","i","t","i","o","n">>,
                  <<"t","i","t","l","e",":","c","o","n","d","i","t","i","o","n">>,
                  <<"a","r","t","i","s","t",":","t","i","t","l","e">>})}

GeneralOpts ==
    {t @@ s : t \in OptChoices("type", {s_label}),
              s \in OptChoices("swap-columns", {s_yes, s_no})}

\* the profile section alone, before or after a general section, after
\* another profile; and files without the profile section
Configs ==
    {<<Section("p", o)>> : o \in TypeOpts \cup GeometryOpts \cup LayoutOpts}
    \cup {<<Section("general", g), Section("p", o)>>
            : g \in GeneralOpts, o \in TypeOpts}
    \cup {<<Section("p", o), Section("general", g)>>
            : g \in GeneralOpts, o \in TypeOpts}
    \cup {<<Section("q", BaseOpts), Section("p", o)>> : o \in TypeOpts}
    \cup {<<>>, <<Section("q", BaseOpts)>>}
    \cup {<<Section("general", g)>> : g \in GeneralOpts}

\* --profile: the profile of the files above, a name no file has, and the
\* name of the general section
ProfileNames == {"p", "x", "general"}

---------------------------------------------------------------------------
(* Inputs: CSV files.  csv.DictReader gives every row of a file the keys   *)
(* of the header line.                                                     *)

\* rows of a file with a column named "field"
FieldRows ==
    {[release_id |-> "123", listing_id |-> "456", artist |-> "X",
      title |-> "Y", media_condition |-> "VG+", sleeve_condition |-> "NM",
      field |-> "F"],
     [release_id |-> "7", listing_id |-> "8", artist |-> "Z",
      title |-> "", media_condition |-> "M", sleeve_condition |-> "G",
      field |-> ""]}

\* a row of a Discogs inventory export (lines 214-219)
InventoryRows ==
    {[listing_id |-> "456", release_id |-> "123", artist |-> "X",
      title |-> "Y", media_condition |-> "VG+", sleeve_condition |-> "NM"]}

\* a row of a Discogs collection export (lines 207-211)
CollectionRows ==
    {[release_id |-> "123", Artist |-> "X", Title |-> "Y"]}

SeqsUpTo(S, n) == UNION {[1..k -> S] : k \in 1..n}

CsvFiles ==
    {<<>>} \cup SeqsUpTo(FieldRows, MaxRecords)
    \cup SeqsUpTo(InventoryRows, MaxRecords)
    \cup SeqsUpTo(CollectionRows, MaxRecords)

---------------------------------------------------------------------------
(* Ways a run ends *)

\* sys.exit(status) after n diagnostics printed by the program
Exit(status, n) ==
    /\ exited' = TRUE
    /\ pc' = pc
    /\ exitStatus' = status
    /\ stderr' = stderr + n
    /\ exc' = ""

\* an exception nothing catches: the interpreter prints the traceback to
\* the error stream and exits with status 1
Raise(e) ==
    /\ exited' = TRUE
    /\ pc' = pc
    /\ exitStatus' = 1
    /\ stderr' = stderr + 1
    /\ exc' = e

Goto(stage) ==
    /\ pc' = stage
    /\ UNCHANGED <<exited, exitStatus, stderr, exc>>

---------------------------------------------------------------------------
(* Init: the process has started; main() is about to parse its arguments *)

Init ==
    /\ pc = "parseargs"
    /\ exited = FALSE
    /\ exitStatus = 0
    /\ exc = ""
    /\ stderr = 0
    /\ outfile = "absent"
    /\ args \in [profile : ProfileNames, csv_type_inventory : BOOLEAN]
    /\ config \in Configs
    /\ csvrows = <<>>
    /\ csvopened = FALSE
    /\ profile = EmptyDict
    /\ fields = <<>>
    /\ swap_columns = FALSE
    /\ csvlines = <<>>
    /\ csv_type = ""
    /\ dims = 0
    /\ qrdoc = EmptyDict
    /\ counter = 0
    /\ tmpqueue = <<>>
    /\ data = <<>>
    /\ qr_table = EmptyDict

\* lines 54-62: parse_args, then parser.error (usage and message on the
\* error stream, status 2) when either input file does not exist
ParseArgs ==
    /\ pc = "parseargs" /\ ~exited
    /\ \E cfgExists \in BOOLEAN, csvExists \in BOOLEAN :
         IF cfgExists /\ csvExists THEN Goto("readconfig") ELSE Exit(2, 1)
    /\ UNCHANGED <<outfile, args, config, csvrows, csvopened, profile, fields,
                   swap_columns, csvlines, csv_type, dims, qrdoc, counter,
                   tmpqueue, data, qr_table>>

\* lines 64-73: when open() fails the handler closes configfile, a local
\* that was never bound: UnboundLocalError.  A file that is not in the
\* sectioned format makes read_file raise a configparser.Error, which
\* nothing catches.
ReadConfig ==
    /\ pc = "readconfig" /\ ~exited
    /\ \E outcome \in {"parsed", "unreadable", "malformed"} :
         CASE outcome = "parsed" -> Goto("checkprofile")
           [] outcome = "unreadable" -> Raise("UnboundLocalError")
           [] outcome = "malformed" -> Raise("configparser.Error")
    /\ UNCHANGED <<outfile, args, config, csvrows, csvopened, profile, fields,
                   swap_columns, csvlines, csv_type, dims, qrdoc, counter,
                   tmpqueue, data, qr_table>>

\* lines 75-80 with the sys.exit(1) of line 80 left out: the diagnostic is
\* printed and the run goes on
CheckProfileNameNoExit ==
    /\ pc = "checkprofile" /\ ~exited
    /\ pc' = "resolve"
    /\ stderr' = IF args.profile \notin Sections(config)
                 THEN stderr + 1 ELSE stderr
    /\ UNCHANGED <<exited, exitStatus, exc, outfile, args, config, csvrows, csvopened,
                   profile, fields, swap_columns, csvlines, csv_type, dims,
                   qrdoc, counter, tmpqueue, data, qr_table>>

\* lines 75-80
CheckProfileName ==
    /\ pc = "checkprofile" /\ ~exited
    /\ IF args.profile \notin Sections(config)
       THEN Exit(1, 1)
       ELSE Goto("resolve")
    /\ UNCHANGED <<outfile, args, config, csvrows, csvopened, profile, fields,
                   swap_columns, csvlines, csv_type, dims, qrdoc, counter,
                   tmpqueue, data, qr_table>>

\* lines 82-152
ResolveProfile ==
    /\ pc = "resolve" /\ ~exited
    /\ LET st == Resolve(config, args.profile)
       IN  /\ profile' = st.profile
           /\ fields' = st.fields
           /\ swap_columns' = st.swap_columns
           /\ IF st.profile = EmptyDict THEN Exit(1, 1) ELSE Goto("opencsv")
    /\ UNCHANGED <<outfile, args, config, csvrows, csvopened, csvlines,
                   csv_type, dims, qrdoc, counter, tmpqueue, data, qr_table>>

\* lines 154-166: open the file, wrap it in a DictReader (which reads
\* nothing yet), close it
OpenCsv ==
    /\ pc = "opencsv" /\ ~exited
    /\ \E readable \in BOOLEAN :
         IF readable
         THEN /\ \E rows \in CsvFiles : csvrows' = rows
              /\ csvopened' = TRUE
              /\ Goto("checkcsvlines")
         ELSE /\ UNCHANGED <<csvrows, csvopened>>
              /\ Exit(1, 1)
    /\ UNCHANGED <<outfile, args, config, profile, fields, swap_columns,
                   csvlines, csv_type, dims, qrdoc, counter, tmpqueue, data,
                   qr_table>>

\* lines 168-170.  main() never binds csvlines, so Python looks the name up
\* in the module namespace: unbound when the file runs as a script
\* (NameError), and bound only if an importing caller has put the records
\* of the CSV file there.
CheckCsvLines ==
    /\ pc = "checkcsvlines" /\ ~exited
    /\ \E bound \in BOOLEAN :
         IF ~bound
         THEN /\ Raise("NameError")
              /\ UNCHANGED csvlines
         ELSE /\ csvlines' = csvrows
              /\ IF Len(csvrows) = 0 THEN Exit(0, 0) ELSE Goto("createdocument")
    /\ UNCHANGED <<outfile, args, config, csvrows, csvopened, profile, fields,
                   swap_columns, csv_type, dims, qrdoc, counter, tmpqueue,
                   data, qr_table>>

Min(a, b) == IF a < b THEN a ELSE b

\* lines 172-179: the page size and dims; "KeyError" when a key is missing
PageSetup(p) ==
    IF "pagesize" \in DOMAIN p
    THEN [ok |-> TRUE, pagesize |-> p["pagesize"], dims |-> 35]
    ELSE IF ~({"width", "height"} \subseteq DOMAIN p)
    THEN [ok |-> FALSE, pagesize |-> <<>>, dims |-> 0]
    ELSE [ok |-> TRUE,
          pagesize |-> IF "unit" \in DOMAIN p
                       THEN <<p["width"] * p["unit"], p["height"] * p["unit"]>>
                       ELSE <<p["width"] * pt, p["height"] * pt>>,
          dims |-> Min(p["width"], p["height"]) - 5]

\* a document template that creates its output file when constructed
SimpleDocTemplateCreatesFile(f) == "written"

\* lines 184-186: the file at args.outfile after SimpleDocTemplate(...),
\* which only records the file name and the page geometry; nothing is
\* written before build()
SimpleDocTemplateFile(f) == f

\* lines 172-223
CreateDocument ==
    /\ pc = "createdocument" /\ ~exited
    /\ LET setup == PageSetup(profile)
       IN  IF ~setup.ok \/ "unit" \notin DOMAIN profile
           THEN /\ Raise("KeyError")
                /\ profile' = IF setup.ok
                              THEN ("pagesize" :> setup.pagesize) @@ profile
                              ELSE profile
                /\ dims' = IF setup.ok THEN setup.dims ELSE dims
                /\ UNCHANGED <<outfile, qrdoc, counter, tmpqueue, data>>
           ELSE /\ profile' = ("pagesize" :> setup.pagesize) @@ profile
                /\ outfile' = SimpleDocTemplateFile(outfile)
                /\ dims' = setup.dims
                /\ qrdoc' = [leftMargin |-> 0, rightMargin |-> 0,
                             topMargin |-> (0 - 4) * profile["unit"],
                             bottomMargin |-> 0,
                             pagesize |-> setup.pagesize]
                /\ counter' = 1
                /\ tmpqueue' = <<>>
                /\ data' = <<>>
                /\ Goto("buildlabel")
    /\ UNCHANGED <<args, config, csvrows, csvopened, fields, swap_columns,
                   csvlines, csv_type, qr_table>>

\* lines 225-230: the payload of the QR code, or "KeyError"
QrUrl(type, record) ==
    IF type = "collection"
    THEN IF "release_id" \in DOMAIN record
         THEN [ok |-> TRUE,
               url |-> "https://www.discogs.com/release/" \o record["release_id"]]
         ELSE [ok |-> FALSE, url |-> ""]
    ELSE IF "listing_id" \in DOMAIN record
         THEN [ok |-> TRUE,
               url |-> "https://www.discogs.com/sell/item/" \o record["listing_id"]]
         ELSE [ok |-> FALSE, url |-> ""]

\* lines 242-245: what one field adds to qrhtmltext.  The key looked up is
\* the literal 'field', whatever the field is.
FieldText(record, f) ==
    IF "field" \notin DOMAIN record THEN [ok |-> FALSE, text |-> ""]
    ELSE IF record["field"] # "" THEN [ok |-> TRUE, text |-> record["field"]]
    ELSE IF f = "condition"
    THEN IF {"media_condition", "sleeve_condition"} \subseteq DOMAIN record
         THEN [ok |-> TRUE,
               text |-> "v/s: " \o record["media_condition"] \o "/"
                          \o record["sleeve_condition"]]
         ELSE [ok |-> FALSE, text |-> ""]
    ELSE [ok |-> TRUE, text |-> ""]

\* lines 239-249: qrhtmltext after the fields from fieldcounter on
RECURSIVE HtmlText(_, _, _)
HtmlText(record, fs, fieldcounter) ==
    IF fieldcounter > Len(fs) THEN [ok |-> TRUE, text |-> ""]
    ELSE
      LET one == FieldText(record, fs[fieldcounter])
          rest == HtmlText(record, fs, fieldcounter + 1)
      IN  IF ~one.ok \/ ~rest.ok THEN [ok |-> FALSE, text |-> ""]
          ELSE [ok |-> TRUE,
                text |-> one.text
                         \o (IF fieldcounter < Len(fs) THEN "<br />" ELSE "")
                         \o rest.text]

\* line 233 and 236: the Drawing holding the QR code
QrImage(url, side) == [kind |-> "Drawing", width |-> side, height |-> side,
                       qr |-> url]

\* line 250
Paragraph(text) == [kind |-> "Paragraph", text |-> text, style |-> "BodyText"]

\* lines 252-258
Enqueue(queue, swap, qrhtml, qrimage) ==
    IF swap THEN queue \o <<qrimage, qrhtml>> ELSE queue \o <<qrhtml, qrimage>>

\* line 259: the row is complete
RowComplete(n, columns) == n % columns = 0

\* the values an importing caller may have bound the name csv_type to;
\* nothing in main() relates it to args.csv_type_inventory (lines 50-52)
Shapes == {"collection", "inventory"}

\* lines 224-262: the loop body for record number counter.  main() never
\* binds csv_type either: NameError unless a caller has bound it.
BuildLabel ==
    /\ pc = "buildlabel" /\ ~exited
    /\ counter <= Len(csvlines)
    /\ \E bound \in BOOLEAN, shape \in Shapes :
         /\ csv_type # "" => (bound /\ shape = csv_type)
         /\ IF ~bound
            THEN /\ Raise("NameError")
                 /\ UNCHANGED <<csv_type, counter, tmpqueue, data>>
            ELSE
              LET record == csvlines[counter]
                  qrurl == QrUrl(shape, record)
                  html == HtmlText(record, fields, 1)
                  queue == Enqueue(tmpqueue, swap_columns,
                                   Paragraph(html.text),
                                   QrImage(qrurl.url, dims * profile["unit"]))
              IN  /\ csv_type' = shape
                  /\ IF ~qrurl.ok \/ ~html.ok
                     THEN /\ Raise("KeyError")
                          /\ UNCHANGED <<counter, tmpqueue, data>>
                     ELSE IF profile["columns"] = 0
                     THEN /\ Raise("ZeroDivisionError")
                          /\ tmpqueue' = queue
                          /\ UNCHANGED <<counter, data>>
                     ELSE /\ IF RowComplete(counter, profile["columns"])
                             THEN data' = Append(data, queue) /\ tmpqueue' = <<>>
                             ELSE data' = data /\ tmpqueue' = queue
                          /\ counter' = counter + 1
                          /\ Goto("buildlabel")
    /\ UNCHANGED <<outfile, args, config, csvrows, csvopened, profile, fields,
                   swap_columns, csvlines, dims, qrdoc, qr_table>>

\* lines 264-266 left out: a partial last row is never added
FlushNothing(rows, queue) == rows

\* lines 264-266
Flush(rows, queue) == IF queue # <<>> THEN Append(rows, queue) ELSE rows

\* lines 264-284: after the loop, the table is built from data and
\* qrdoc.build writes the PDF; main returns and the process exits with 0
RenderDocument ==
    /\ pc = "buildlabel" /\ ~exited
    /\ counter > Len(csvlines)
    /\ data' = Flush(data, tmpqueue)
    /\ qr_table' = [data |-> data',
                    colWidths |-> dims * profile["unit"],
                    rowHeights |-> (dims + 2) * profile["unit"]]
    /\ outfile' = "written"
    /\ Exit(0, 0)
    /\ UNCHANGED <<args, config, csvrows, csvopened, profile, fields,
                   swap_columns, csvlines, csv_type, dims, qrdoc, counter,
                   tmpqueue>>

Next ==
    \/ ParseArgs
    \/ ReadConfig
    \/ CheckProfileName
    \/ ResolveProfile
    \/ OpenCsv
    \/ CheckCsvLines
    \/ CreateDocument
    \/ BuildLabel
    \/ RenderDocument

Spec == Init /\ [][Next]_vars

---------------------------------------------------------------------------
(* Vocabulary of the properties *)

\* the run has reached line 75: the arguments and the configuration file
\* were accepted
ConfigRead == pc \notin {"parseargs", "readconfig"}

\* lines 82-152 have run: they ended the run or main() is past them
ResolveDone ==
    \/ pc = "resolve" /\ exited
    \/ pc \in {"opencsv", "checkcsvlines", "createdocument", "buildlabel"}

\* the options of the section named by args.profile, {} without one
ProfileOpts ==
    IF \E i \in 1..Len(config) : config[i].name = args.profile
    THEN config[CHOOSE i \in 1..Len(config) : config[i].name = args.profile].opts
    ELSE EmptyDict

\* the options of the general section, {} without one
GeneralSectionOpts ==
    IF \E i \in 1..Len(config) : config[i].name = "general"
    THEN config[CHOOSE i \in 1..Len(config) : config[i].name = "general"].opts
    ELSE EmptyDict

\* all of lines 107-149 ran for the profile section
FullyResolved == {"rows", "columns"} \subseteq DOMAIN profile

RECURSIVE Flat(_)
Flat(rows) == IF rows = <<>> THEN <<>> ELSE Head(rows) \o Flat(Tail(rows))

\* the table elements built so far, in the order they were built
Built == IF qr_table # EmptyDict THEN Flat(data) ELSE Flat(data) \o tmpqueue

\* the number of labels built so far
LabelCount == Len(Built) \div 2

\* the code graphic and the text block of the k-th label built
CodeOf(k) ==
    IF Built[2 * k - 1].kind = "Drawing" THEN Built[2 * k - 1] ELSE Built[2 * k]
TextOf(k) ==
    IF Built[2 * k - 1].kind = "Paragraph" THEN Built[2 * k - 1] ELSE Built[2 * k]

\* the two table elements of the label of record r, as lines 225-258 build
\* them
CellOf(r) ==
    Enqueue(<<>>, swap_columns, Paragraph(HtmlText(r, fields, 1).text),
            QrImage(QrUrl(csv_type, r).url, dims * profile["unit"]))

CeilDiv(n, d) == (n + d - 1) \div d

---------------------------------------------------------------------------
(* C1 *)

\* C1: when the profile has columns >= 1, the grid handed to Table() has
\* ceil(N / columns) rows for the N records iterated; every row but the
\* last holds exactly `columns` label cells (two table elements each), the
\* last holds between 1 and `columns`; and read row by row the cells are
\* the labels of the records in input order, whatever `rows` is.
C1_GridShape ==
    (qr_table # EmptyDict /\ profile["columns"] >= 1) =>
        LET grid == qr_table.data
            N == Len(csvlines)
            c == profile["columns"]
        IN  /\ Len(grid) = CeilDiv(N, c)
            /\ \A r \in 1..Len(grid) :
                 /\ r < Len(grid) => Len(grid[r]) = 2 * c
                 /\ Len(grid[r]) >= 2 /\ Len(grid[r]) <= 2 * c
                 /\ Len(grid[r]) % 2 = 0
                 /\ \A j \in 1..(Len(grid[r]) \div 2) :
                      /\ (r - 1) * c + j <= N
                      /\ SubSeq(grid[r], 2 * j - 1, 2 * j)
                           = CellOf(csvlines[(r - 1) * c + j])
            /\ Len(Flat(grid)) = 2 * N

\* three records packed in two columns: a full row and a short last row,
\* more rows than the profile's `rows`
C1_Witness ==
    /\ qr_table # EmptyDict
    /\ Len(csvlines) = 3
    /\ profile["columns"] = 2
    /\ profile["rows"] = 1
    /\ Len(qr_table.data) = 2
    /\ csvlines[1] # csvlines[2]

---------------------------------------------------------------------------
(* C2 *)

\* the payload the command line selects for record r
FlagUrl(r) ==
    IF args.csv_type_inventory
    THEN "https://www.discogs.com/sell/item/" \o r["listing_id"]
    ELSE "https://www.discogs.com/release/" \o r["release_id"]

\* C2: the code of every label built encodes the release URL of its record
\* when the inventory flag is absent and the listing URL of its record when
\* the flag is present.
C2_PayloadFollowsFlag ==
    \A k \in 1..LabelCount :
        /\ (IF args.csv_type_inventory THEN "listing_id" ELSE "release_id")
             \in DOMAIN csvlines[k]
        /\ CodeOf(k).qr = FlagUrl(csvlines[k])

---------------------------------------------------------------------------
(* C3 *)

\* the output for field f of record r as the claim states it
ClaimedFieldText(r, f) ==
    IF f \in DOMAIN r /\ r[f] # "" THEN r[f]
    ELSE IF f = "condition" /\ {"media_condition", "sleeve_condition"}
                                  \subseteq DOMAIN r
    THEN "v/s: " \o r["media_condition"] \o "/" \o r["sleeve_condition"]
    ELSE ""

\* the per-field outputs joined by the separator, none trailing
RECURSIVE ClaimedText(_, _, _)
ClaimedText(r, fs, i) ==
    IF i > Len(fs) THEN ""
    ELSE ClaimedFieldText(r, fs[i])
         \o (IF i < Len(fs) THEN "<br />" ELSE "")
         \o ClaimedText(r, fs, i + 1)

\* C3: the text block of every label built is the per-field outputs of its
\* record joined by the line break, where a field gives the record's value
\* under that field name when non-empty, else the v/s composite for the
\* field `condition`, else nothing.
C3_TextBlock ==
    \A k \in 1..LabelCount :
        TextOf(k).text = ClaimedText(csvlines[k], fields, 1)

---------------------------------------------------------------------------
(* C4 *)

\* C4: a run with a resolved profile whose CSV file was opened and holds
\* no record ends with status 0, without a document having been set up and
\* without an output file.
C4_EmptyInputExitsZero ==
    (exited /\ csvopened /\ csvrows = <<>> /\ FullyResolved) =>
        (exitStatus = 0 /\ qrdoc = EmptyDict /\ outfile = "absent")

---------------------------------------------------------------------------
(* C5 *)

\* C5: once the configuration has been read, a run whose profile name is
\* not a section of it never gets past the check of line 77, where it
\* exits with a non-zero status and exactly one diagnostic, without writing
\* the output file and without opening the CSV file or looking at a record.
C5_UnknownProfile ==
    (args.profile \notin Sections(config) /\ ConfigRead) =>
        /\ pc = "checkprofile"
        /\ exited => (exitStatus # 0 /\ stderr = 1)
        /\ ~exited => stderr = 0
        /\ outfile = "absent"
        /\ ~csvopened
        /\ csvlines = <<>>
        /\ LabelCount = 0

\* the exit of line 80
C5_Witness ==
    /\ args.profile \notin Sections(config)
    /\ config # <<>>
    /\ pc = "checkprofile"
    /\ exited
    /\ exitStatus = 1
    /\ exc = ""
    /\ stderr = 1

---------------------------------------------------------------------------
(* C6 *)

\* C6: a run that ended with a non-zero status has not written the output
\* file, and the output file is written only by a run that ended with
\* status 0 after a label was built and packed for every record.
C6_NoOutputOnFailure ==
    /\ (exited /\ exitStatus # 0) => outfile = "absent"
    /\ outfile = "written" =>
         /\ exited
         /\ exitStatus = 0
         /\ counter = Len(csvlines) + 1
         /\ qr_table # EmptyDict
         /\ Len(Flat(qr_table.data)) = 2 * Len(csvlines)

\* a record lacking the identifier of the shape ends the run inside the
\* per-record build, after the document template was created
C6_Witness ==
    /\ pc = "buildlabel"
    /\ exited
    /\ exitStatus = 1
    /\ exc = "KeyError"
    /\ qrdoc # EmptyDict
    /\ csv_type = "inventory"
    /\ "listing_id" \notin DOMAIN csvlines[counter]
    /\ outfile = "absent"

---------------------------------------------------------------------------
(* C7 *)

\* C7: for a resolved profile, fields is [artist, title] when the section
\* has no fields key or the value is the empty string, and the
\* colon-separated items of the value otherwise.
C7_FieldsDefault ==
    (ResolveDone /\ FullyResolved) =>
        fields = IF ~HasOption(ProfileOpts, "fields")
                    \/ ProfileOpts["fields"] = s_empty
                 THEN <<"artist", "title">>
                 ELSE Split(ProfileOpts["fields"], ":")

---------------------------------------------------------------------------
(* C8 *)

\* C8: the CSV file is opened only with a profile that has a standard page
\* size or all of height, width, rows and columns.
C8_GeometryComplete ==
    csvopened =>
        \/ HasOption(ProfileOpts, "pagesize") /\ ProfileOpts["pagesize"] = s_A4
        \/ {"height", "width", "rows", "columns"} \subseteq DOMAIN profile

---------------------------------------------------------------------------
(* C9 *)

\* the profile section gives integer width and height and no unit mm
UnscaledProfile ==
    /\ FullyResolved
    /\ "pagesize" \notin DOMAIN ProfileOpts
    /\ ~(HasOption(ProfileOpts, "unit") /\ ProfileOpts["unit"] = s_mm)

\* C9: with integer width and height and a unit that is absent or not mm,
\* the document is set up with scale factor 1 (page (width, height), cell
\* min(width, height) - 5, top margin -4) and the run does not fail for the
\* lack of a unit.
C9_UnitDefault ==
    (UnscaledProfile /\ pc \in {"createdocument", "buildlabel"}) =>
      /\ ~(pc = "createdocument" /\ exited)
      /\ pc = "buildlabel" =>
        /\ qrdoc # EmptyDict
        /\ qrdoc.pagesize = <<profile["width"] * pt, profile["height"] * pt>>
        /\ qrdoc.topMargin = (0 - 4) * pt
        /\ dims = Min(profile["width"], profile["height"]) - 5
        /\ qr_table # EmptyDict =>
             /\ qr_table.colWidths = dims * pt
             /\ qr_table.rowHeights = (dims + 2) * pt

---------------------------------------------------------------------------
(* C10 *)

\* the profile section declares type and a valid geometry
WellFormedProfileSection ==
    /\ HasOption(ProfileOpts, "type")
    /\ \/ HasOption(ProfileOpts, "pagesize") /\ ProfileOpts["pagesize"] = s_A4
       \/ IntOption(ProfileOpts, "height") /\ IntOption(ProfileOpts, "width")

\* C10: a profile section that declares type and a valid geometry resolves
\* whatever the general section holds and wherever it stands, and
\* swap_columns is true exactly when the general section sets swap-columns
\* to yes.
C10_TypeOnlyInProfile ==
    (ResolveDone /\ WellFormedProfileSection) =>
        /\ FullyResolved
        /\ swap_columns = (/\ HasOption(GeneralSectionOpts, "swap-columns")
                           /\ GeneralSectionOpts["swap-columns"] = s_yes)

====
